---- MODULE Spec2Model ----
(***************************************************************************)
(* A model of the LSynth sound chip (src/src/lib.rs, channel.rs,           *)
(* waveform.rs, errors.rs).                                                *)
(*                                                                         *)
(* Numbers.  An f32 is modelled as an exact fixed-point number: the        *)
(* integer x stands for the value x/ONE.  Durations in seconds (timestep,  *)
(* the step of advance) are counted in units of 1/TDEN second, so that     *)
(* 1/samplerate is exact.  The inputs of the model are drawn from values   *)
(* for which the sums, differences and rate*step products of the code are  *)
(* exact on this grid.  Three f32 values are not on the grid and are        *)
(* distinguished values: NaN, with the comparison and min/max/clamp         *)
(* behaviour of Rust's f32; Tiny, a negative number too near to 0 to        *)
(* survive an addition to a non-zero value of the grid; and Huge, a number  *)
(* so large that adding a value of the grid to it leaves it as it is.  A    *)
(* usize is a natural number.                                               *)
(***************************************************************************)
EXTENDS Integers, Sequences, FiniteSets, TLC

VARIABLES
    channels,          \* ChipState.channels: the sequence of ChannelState records
    parameters,        \* ChipState.parameters: a ChipParameters record
    remaining_frames,  \* ChipState.remaining_frames
    buffer,            \* the caller's slice after the last generate call
    buffer_before,     \* the same slice as it was handed to that call
    result,            \* what the last call returned (and its arguments)
    total_frames,      \* history: frames generated since construction
    ticks,             \* history: successful generate calls that returned remaining_samples = 0
    tick_start,        \* history: total_frames when the current tick was started
    calls,             \* history: number of generate calls
    commands,          \* history: number of send_command / execute_command calls
    last_command,      \* history: the last command a channel executed successfully
    ramp_from,         \* history: the channel's ramped value when that command arrived
    slide_from,        \* history: the channel's current values when that command arrived
    custom_sent,       \* history: the last table a channel received with SetCustomWaveform
    frame_vecs,        \* what the channels produced in the last generate call
    in_generate,       \* where a generate call stands that is followed step by step
    noise_calls,       \* history: the noise() calls of the last advance called on its own
    fill,              \* history: the chip when a run of generate calls began, and the
                       \* samples these calls have written since
    advances           \* history: advance steps since that command

vars == <<channels, parameters, remaining_frames, buffer, buffer_before, result,
          total_frames, ticks, tick_start, calls, commands, last_command,
          ramp_from, slide_from, custom_sent, frame_vecs, in_generate, noise_calls,
          fill, advances>>

-----------------------------------------------------------------------------
(* f32 arithmetic on the fixed-point grid *)

ONE == 800
TDEN == 2000
NaN == -1000000000
\* a negative f32 nearer to 0 than half the distance between neighbouring f32s
\* at any non-zero value of the grid (-1e-9, say): adding it to such a value
\* rounds to that value
Tiny == -999999999

\* a finite f32 whose neighbouring f32s are further away than any value of the
\* grid, also after a multiplication by a timestep (1e30, say): adding or
\* subtracting a value of the grid rounds to the number itself
Huge == 999999998

IsNaN(x) == x = NaN
IsTiny(x) == x = Tiny
\* Huge or -Huge
IsHuge(x) == x = Huge \/ x = -Huge

Min(a, b) == IF a <= b THEN a ELSE b
Max(a, b) == IF a >= b THEN a ELSE b
Abs(a) == IF a < 0 THEN -a ELSE a

\* n/d rounded to the nearest integer, halves away from zero (d > 0)
RoundDiv(n, d) == IF n >= 0 THEN (n + d \div 2) \div d
                  ELSE -(((-n) + d \div 2) \div d)

\* a * b / d rounded as RoundDiv rounds, the whole part of a/d multiplied apart
MulDiv(a, b, d) ==
    LET whole == (Abs(a) \div d) * Abs(b)
        part == RoundDiv((Abs(a) % d) * Abs(b), d)
    IN  IF (a < 0) = (b < 0) THEN whole + part ELSE -(whole + part)

\* comparisons with NaN are false
FLt(a, b) ==
    /\ ~IsNaN(a) /\ ~IsNaN(b)
    /\ IF IsTiny(a) THEN ~IsTiny(b) /\ b >= 0
       ELSE IF IsTiny(b) THEN a < 0
       ELSE a < b
FGe(a, b) == ~IsNaN(a) /\ ~IsNaN(b) /\ ~FLt(a, b)

\* sums and differences are rounded to the nearest f32: Tiny is lost in every
\* sum but the one with 0
FAdd(a, b) ==
    IF IsNaN(a) \/ IsNaN(b) THEN NaN
    ELSE IF IsTiny(a) THEN (IF b = 0 THEN Tiny ELSE b)
    ELSE IF IsTiny(b) THEN (IF a = 0 THEN Tiny ELSE a)
    ELSE IF IsHuge(a) THEN (IF b = -a THEN 0 ELSE a)
    ELSE IF IsHuge(b) THEN b
    ELSE a + b
\* (a value as near to 0 as Tiny on the positive side is taken as 0)
FNeg(a) == IF IsNaN(a) THEN NaN ELSE IF IsTiny(a) THEN 0 ELSE -a
FSub(a, b) == IF IsTiny(a) /\ IsTiny(b) THEN 0 ELSE FAdd(a, FNeg(b))
FAbs(a) == IF IsNaN(a) THEN NaN ELSE IF IsTiny(a) THEN 0 ELSE Abs(a)
FMul(a, b) ==
    IF IsNaN(a) \/ IsNaN(b) THEN NaN
    ELSE IF IsTiny(a) THEN (IF ~IsTiny(b) /\ b > 0 THEN Tiny ELSE 0)
    ELSE IF IsTiny(b) THEN (IF a > 0 THEN Tiny ELSE 0)
    ELSE IF IsHuge(a) \/ IsHuge(b)
         THEN (IF a = 0 \/ b = 0 THEN 0
               ELSE IF (a < 0) = (b < 0) THEN Huge ELSE -Huge)
    ELSE MulDiv(a, b, ONE)
\* a quantity per second times a duration in 1/TDEN seconds
FMulT(a, t) == IF IsNaN(a) THEN NaN ELSE IF IsTiny(a) THEN Tiny
               ELSE IF IsHuge(a) THEN a
               ELSE RoundDiv(a * t, TDEN)
\* an integer (usize as f32) divided by an f32
FDivInt(n, b) == IF IsNaN(b) THEN NaN ELSE RoundDiv(n * ONE * ONE, b)
\* f32::min and f32::max: when one argument is NaN the other is returned
FMin(a, b) == IF IsNaN(a) THEN b ELSE IF IsNaN(b) THEN a
              ELSE IF FLt(b, a) THEN b ELSE a
FMax(a, b) == IF IsNaN(a) THEN b ELSE IF IsNaN(b) THEN a
              ELSE IF FLt(a, b) THEN b ELSE a
\* f32::clamp: NaN stays NaN
FClamp(x, lo, hi) == IF FLt(x, lo) THEN lo ELSE IF FLt(hi, x) THEN hi ELSE x
\* (an f32 as large as Huge is a whole number)
FFloor(x) == IF IsNaN(x) THEN NaN ELSE IF IsTiny(x) THEN -ONE
             ELSE IF IsHuge(x) THEN x
             ELSE (x \div ONE) * ONE
\* the % of f32: the remainder has the sign of the dividend
FRem(x, m) == IF IsNaN(x) THEN NaN ELSE IF IsTiny(x) THEN Tiny
              ELSE IF IsHuge(x) THEN 0
              ELSE IF x >= 0 THEN x % m ELSE -((-x) % m)
\* `as usize` of an f32: truncates, saturates at 0, NaN gives 0
ToUsize(x) == IF IsNaN(x) \/ IsTiny(x) \/ x < 0 THEN 0 ELSE x \div ONE

-----------------------------------------------------------------------------
(* waveform.rs *)

CUSTOM_WIDTH == 32

\* sin(2*pi*k/ONE)*ONE for the first quarter of the period, k = 0..ONE/4
SineQuarter ==
    <<0, 6, 13, 19, 25, 31, 38, 44, 50, 57, 63, 69, 75, 82, 88, 94, 100, 106,
      113, 119, 125, 131, 138, 144, 150, 156, 162, 168, 175, 181, 187, 193,
      199, 205, 211, 217, 223, 229, 235, 241, 247, 253, 259, 265, 271, 277,
      283, 289, 294, 300, 306, 312, 318, 323, 329, 335, 341, 346, 352, 358,
      363, 369, 374, 380, 385, 391, 396, 402, 407, 413, 418, 423, 429, 434,
      439, 444, 450, 455, 460, 465, 470, 475, 480, 485, 490, 495, 500, 505,
      510, 515, 520, 524, 529, 534, 538, 543, 548, 552, 557, 561, 566, 570,
      575, 579, 583, 587, 592, 596, 600, 604, 608, 612, 616, 620, 624, 628,
      632, 636, 640, 644, 647, 651, 655, 658, 662, 665, 669, 672, 675, 679,
      682, 685, 689, 692, 695, 698, 701, 704, 707, 710, 713, 716, 718, 721,
      724, 727, 729, 732, 734, 737, 739, 741, 744, 746, 748, 751, 753, 755,
      757, 759, 761, 763, 765, 766, 768, 770, 772, 773, 775, 776, 778, 779,
      781, 782, 783, 785, 786, 787, 788, 789, 790, 791, 792, 793, 794, 794,
      795, 796, 796, 797, 798, 798, 798, 799, 799, 799, 800, 800, 800, 800,
      800>>

sine(period) ==
    IF IsNaN(period) THEN NaN
    ELSE IF IsTiny(period) THEN 0
    ELSE LET q == period % ONE
             h == ONE \div 2
         IN  IF q <= h \div 2 THEN SineQuarter[q + 1]
             ELSE IF q <= h THEN SineQuarter[h - q + 1]
             ELSE IF q <= h + h \div 2 THEN -SineQuarter[q - h + 1]
             ELSE -SineQuarter[ONE - q + 1]

triangle(period) == FAdd(FMul(FNeg(FAbs(FSub(period, ONE \div 2))), 4 * ONE), ONE)

rec_sine(period) ==
    IF FLt(period, ONE \div 2) THEN FSub(FMul(sine(period), 2 * ONE), ONE)
    ELSE -ONE

saw(period) == FSub(FMul(period, 2 * ONE), ONE)

square(period) == IF FLt(period, ONE \div 2) THEN ONE ELSE -ONE

pulse(period) == IF FLt(period, ONE \div 4) THEN ONE ELSE -ONE

\* the values noise() may return: rand::random::<f32>() * 2.0 - 1.0
NoiseValues == {-ONE, 0, ONE \div 2}

\* faulty variant: the table is read from its end
CustomMirrored(period, data) ==
    data[CUSTOM_WIDTH - 1 - ToUsize(FFloor(FMul(period, CUSTOM_WIDTH * ONE)))]

\* the index custom() reads: (period * CUSTOM_WIDTH as f32).floor() as usize
CustomIndex(period) == ToUsize(FFloor(FMul(period, CUSTOM_WIDTH * ONE)))

\* data is indexed 0..CUSTOM_WIDTH-1; an index outside it has no value (a panic)
custom(period, data) == data[CustomIndex(period)]

-----------------------------------------------------------------------------
(* channel.rs *)

RAMPING_RATE == 500
BROWNIAN_LEAK == 10000

\* ChannelState::new
NewChannel ==
    [period |-> 0,
     waveform |-> 0,
     custom_waveform |-> [i \in 0..(CUSTOM_WIDTH - 1) |-> 0],
     frequency |-> 440 * ONE,
     amplitude |-> 0,
     panning |-> 0,
     ramped_amplitude |-> 0,
     ramped_panning |-> 0,
     frequency_slide_target |-> 440 * ONE,
     amplitude_slide_target |-> 0,
     panning_slide_target |-> 0,
     frequency_rate |-> 0,
     amplitude_rate |-> 0,
     panning_rate |-> 0,
     noise_sample |-> 0]

\* the value the waveform selected by ch.waveform has at ch.period
WaveValue(ch) ==
    CASE ch.waveform = 0 -> sine(ch.period)
      [] ch.waveform = 1 -> triangle(ch.period)
      [] ch.waveform = 2 -> rec_sine(ch.period)
      [] ch.waveform = 3 -> saw(ch.period)
      [] ch.waveform = 4 -> square(ch.period)
      [] ch.waveform = 5 -> pulse(ch.period)
      [] ch.waveform = 6 -> ch.noise_sample
      [] ch.waveform = 7 -> custom(ch.period, ch.custom_waveform)
      [] OTHER -> 0

\* the gains of the left and the right side
LeftGain(ch) == FMin(FAdd(FNeg(ch.ramped_panning), ONE), ONE)
RightGain(ch) == FMin(FAdd(ch.ramped_panning, ONE), ONE)

\* sample() panics when custom() indexes the table out of its bounds
SamplePanics(ch) == ch.waveform = 7 /\ CustomIndex(ch.period) >= CUSTOM_WIDTH

\* ChannelState::sample: the pair (left_sample, right_sample)
sample(ch) ==
    LET sample_output == FMul(WaveValue(ch), ch.ramped_amplitude)
    IN  <<FMul(sample_output, LeftGain(ch)), FMul(sample_output, RightGain(ch))>>

\* faulty variant: the step does not limit the change
ApproachUnlimited(value, target, step) == FAdd(value, FSub(target, value))

\* approach(value, target, step)
approach(value, target, step) ==
    LET abs_rate == FAbs(step)
    IN  FAdd(value, FMax(FMin(FSub(target, value), abs_rate), FNeg(abs_rate)))

\* the factor of the leaky integration: 1.0 - BROWNIAN_LEAK * step
LeakFactor(step) == FSub(ONE, FMulT(BROWNIAN_LEAK * ONE, step))

\* the while loop of advance cannot end: its condition holds and `period -= 1.0`
\* leaves the period as it is
NoiseLoopHangs(ch) == FGe(ch.period, ONE) /\ FSub(ch.period, ONE) = ch.period

\* the while loop of advance after n noise() calls: every state it can end in
\* with the number of noise() calls made, one per iteration; nothing when it
\* cannot end
RECURSIVE NoiseLoopCounted(_, _, _)
NoiseLoopCounted(ch, step, n) ==
    IF NoiseLoopHangs(ch) THEN {}
    ELSE IF FGe(ch.period, ONE)
    THEN UNION { NoiseLoopCounted([ch EXCEPT
                     !.noise_sample = FMul(FAdd(@, nz), LeakFactor(step)),
                     !.period = FSub(@, ONE)], step, n + 1) : nz \in NoiseValues }
    ELSE {[state |-> ch, noise_calls |-> n]}

\* the while loop of advance: every state it can end in
NoiseLoop(ch, step) == { r.state : r \in NoiseLoopCounted(ch, step, 0) }

\* line 99 of advance
MovePeriod(ch, step) == [ch EXCEPT !.period = FAdd(@, FMulT(ch.frequency, step))]

\* advance(step) does not return
AdvanceHangs(ch, step) ==
    LET moved == MovePeriod(ch, step)
    IN  moved.waveform = 6 /\ NoiseLoopHangs(moved)

\* the first half of advance, the phase accumulator, with the noise() calls made
AdvancePeriodCounted(ch, step) ==
    LET moved == MovePeriod(ch, step)
        looped == IF moved.waveform = 6 THEN NoiseLoopCounted(moved, step, 0)
                  ELSE {[state |-> moved, noise_calls |-> 0]}
    IN  { [r EXCEPT !.state.period = FSub(@, FFloor(@))] : r \in looped }

\* the first half of advance: the phase accumulator
AdvancePeriod(ch, step) == { r.state : r \in AdvancePeriodCounted(ch, step) }

\* faulty variant: the slides move first, the ramps follow the new values
AdvanceRelaxSlidesFirst(ch, step) ==
    LET c1 == [ch EXCEPT !.frequency =
                   approach(@, ch.frequency_slide_target, FMulT(ch.frequency_rate, step))]
        c2 == [c1 EXCEPT !.amplitude =
                   approach(@, c1.amplitude_slide_target, FMulT(c1.amplitude_rate, step))]
        c3 == [c2 EXCEPT !.panning =
                   approach(@, c2.panning_slide_target, FMulT(c2.panning_rate, step))]
        c4 == [c3 EXCEPT !.ramped_amplitude =
                   approach(@, c3.amplitude, FMulT(RAMPING_RATE * ONE, step))]
    IN  [c4 EXCEPT !.ramped_panning =
             approach(@, c4.panning, FMulT(RAMPING_RATE * ONE, step))]

\* the second half of advance: the five approach assignments, in order
AdvanceRelax(ch, step) ==
    LET c1 == [ch EXCEPT !.ramped_amplitude =
                   approach(@, ch.amplitude, FMulT(RAMPING_RATE * ONE, step))]
        c2 == [c1 EXCEPT !.ramped_panning =
                   approach(@, c1.panning, FMulT(RAMPING_RATE * ONE, step))]
        c3 == [c2 EXCEPT !.frequency =
                   approach(@, c2.frequency_slide_target, FMulT(c2.frequency_rate, step))]
        c4 == [c3 EXCEPT !.amplitude =
                   approach(@, c3.amplitude_slide_target, FMulT(c3.amplitude_rate, step))]
    IN  [c4 EXCEPT !.panning =
             approach(@, c4.panning_slide_target, FMulT(c4.panning_rate, step))]

\* ChannelState::advance: the set of states the channel can be in afterwards
\* (one state unless the waveform is noise)
advance(ch, step) == { AdvanceRelax(c, step) : c \in AdvancePeriod(ch, step) }

\* ChannelState::advance with the noise() calls it made
AdvanceCounted(ch, step) ==
    { [r EXCEPT !.state = AdvanceRelax(@, step)] : r \in AdvancePeriodCounted(ch, step) }

\* the clamps of execute_command
ClampAmplitude(value) == FClamp(value, 0, ONE)
ClampPanning(value) == FClamp(value, -ONE, ONE)
ClampFrequency(value) == FMax(value, 0)
ClampWave(value) == FClamp(value, -ONE, ONE)

Ok(ch) == [ok |-> TRUE, kind |-> "none", attempted_waveform |-> 0, state |-> ch]
InvalidWaveform(ch, value) ==
    [ok |-> FALSE, kind |-> "InvalidWaveform", attempted_waveform |-> value, state |-> ch]

\* faulty variant: the ramped value is left to catch up
ForceSetAmplitudeRamped(ch, v) ==
    LET value == ClampAmplitude(v)
    IN  [ch EXCEPT !.amplitude = value, !.amplitude_slide_target = value]

\* the arms of the match in execute_command
ForceSetAmplitude(ch, v) ==
    LET value == ClampAmplitude(v)
    IN  [ch EXCEPT !.amplitude = value, !.ramped_amplitude = value,
                   !.amplitude_slide_target = value]

SetAmplitude(ch, v) ==
    LET value == ClampAmplitude(v)
    IN  [ch EXCEPT !.amplitude = value, !.amplitude_slide_target = value]

\* faulty variant: the slide sets the current value as well
AmplitudeSlideJump(ch, v, rate) ==
    LET value == ClampAmplitude(v)
    IN  [ch EXCEPT !.amplitude = value, !.amplitude_slide_target = value,
                   !.amplitude_rate = rate]

AmplitudeSlide(ch, v, rate) ==
    LET value == ClampAmplitude(v)
    IN  [ch EXCEPT !.amplitude_slide_target = value, !.amplitude_rate = rate]

\* faulty variant: the value is added to the current frequency
SetFrequencyRelative(ch, v) ==
    LET value == ClampFrequency(FAdd(ch.frequency, v))
    IN  [ch EXCEPT !.frequency = value, !.frequency_slide_target = value]

SetFrequency(ch, v) ==
    LET value == ClampFrequency(v)
    IN  [ch EXCEPT !.frequency = value, !.frequency_slide_target = value]

FrequencySlide(ch, v, rate) ==
    LET value == ClampFrequency(v)
    IN  [ch EXCEPT !.frequency_slide_target = value, !.frequency_rate = rate]

ForceSetPanning(ch, v) ==
    LET value == ClampPanning(v)
    IN  [ch EXCEPT !.panning = value, !.ramped_panning = value,
                   !.panning_slide_target = value]

\* faulty variant: the ramped value is set as well
SetPanningTouchesRamp(ch, v) ==
    LET value == ClampPanning(v)
    IN  [ch EXCEPT !.panning = value, !.ramped_panning = value,
                   !.panning_slide_target = value]

SetPanning(ch, v) ==
    LET value == ClampPanning(v)
    IN  [ch EXCEPT !.panning = value, !.panning_slide_target = value]

PanningSlide(ch, v, rate) ==
    LET value == ClampPanning(v)
    IN  [ch EXCEPT !.panning_slide_target = value, !.panning_rate = rate]

\* faulty variant: the limit is off by one
WaveformLimitOffByOne(value) == value > 8

\* the test of the SetWaveform arm
IsInvalidWaveform(value) == value > 7

SetCustomWaveform(ch, table) ==
    [ch EXCEPT !.custom_waveform =
         [i \in 0..(CUSTOM_WIDTH - 1) |-> ClampWave(table[i])]]

SetPhase(ch, phase) == [ch EXCEPT !.period = FRem(phase, ONE)]

\* ChannelState::execute_command: the Result and the channel afterwards
execute_command(ch, command) ==
    CASE command.op = "ForceSetAmplitude" -> Ok(ForceSetAmplitude(ch, command.value))
      [] command.op = "SetAmplitude" -> Ok(SetAmplitude(ch, command.value))
      [] command.op = "AmplitudeSlide" ->
            Ok(AmplitudeSlide(ch, command.value, command.rate))
      [] command.op = "SetFrequency" -> Ok(SetFrequency(ch, command.value))
      [] command.op = "FrequencySlide" ->
            Ok(FrequencySlide(ch, command.value, command.rate))
      [] command.op = "ForceSetPanning" -> Ok(ForceSetPanning(ch, command.value))
      [] command.op = "SetPanning" -> Ok(SetPanning(ch, command.value))
      [] command.op = "PanningSlide" ->
            Ok(PanningSlide(ch, command.value, command.rate))
      [] command.op = "SetWaveform" ->
            IF IsInvalidWaveform(command.value)
            THEN InvalidWaveform(ch, command.value)
            ELSE Ok([ch EXCEPT !.waveform = command.value])
      [] command.op = "SetCustomWaveform" -> Ok(SetCustomWaveform(ch, command.table))
      [] command.op = "SetPhase" -> Ok(SetPhase(ch, command.value))

-----------------------------------------------------------------------------
(* lib.rs *)

\* ChipParameters::new
NewParameters(samplerate, amplitude, tick_rate) ==
    [samplerate |-> samplerate,
     timestep |-> RoundDiv(TDEN, samplerate),
     amplitude |-> amplitude,
     tick_rate |-> tick_rate,
     tick_frames |-> FDivInt(samplerate, tick_rate)]

\* ChipParameters::get_tick_frames
get_tick_frames(p) == p.tick_frames

\* ChipParameters::update_tick_frames
update_tick_frames(p) == [p EXCEPT !.tick_frames = FDivInt(p.samplerate, p.tick_rate)]

\* faulty variant: tick_frames is left as it was
SetSampleRateStale(p, samplerate) ==
    [p EXCEPT !.samplerate = samplerate, !.timestep = RoundDiv(TDEN, samplerate)]

\* ChipParameters::set_sample_rate
set_sample_rate(p, samplerate) ==
    update_tick_frames([p EXCEPT !.samplerate = samplerate,
                                 !.timestep = RoundDiv(TDEN, samplerate)])

\* ChipParameters::set_tick_rate
set_tick_rate(p, tick_rate) == update_tick_frames([p EXCEPT !.tick_rate = tick_rate])

\* faulty variant: the new tick overwrites what the last one left
StartTickReset(remaining, p) ==
    IF FLt(remaining, ONE) THEN get_tick_frames(p) ELSE remaining

\* the lazy start of a tick: remaining_frames after lines 191-193
StartTick(remaining, p) ==
    IF FLt(remaining, ONE) THEN FAdd(remaining, get_tick_frames(p)) ELSE remaining

\* faulty variant: the length of the slice is not taken into account
FramesIgnoringBuffer(remaining, len) == ToUsize(FFloor(remaining))

\* frames_to_generate, line 195
FramesToGenerate(remaining, len) == Min(ToUsize(FFloor(remaining)), len \div 2)

\* remaining_frames after line 224
SpendFrames(remaining, frames) == FSub(remaining, frames * ONE)

\* faulty variant: frames are returned where samples are meant
RemainingAsFrames(remaining) == ToUsize(FFloor(remaining))

\* remaining_samples, line 226
RemainingSamples(remaining) == ToUsize(FFloor(remaining)) * 2

\* faulty variant: the channel is advanced before it is sampled
RECURSIVE ChannelRunsAdvanceFirst(_, _, _)
ChannelRunsAdvanceFirst(ch, n, step) ==
    IF n = 0
    THEN {[frames |-> <<>>, sampled |-> <<>>, state |-> ch, panicked |-> FALSE]}
    ELSE UNION { { [frames |-> <<sample(c)>> \o r.frames,
                    sampled |-> <<c>> \o r.sampled,
                    state |-> r.state,
                    panicked |-> r.panicked] :
                       r \in ChannelRunsAdvanceFirst(c, n - 1, step) } :
                 c \in advance(ch, step) }

\* faulty variant: the channel is not advanced after the last frame of a call
RECURSIVE ChannelRunsHoldLast(_, _, _)
ChannelRunsHoldLast(ch, n, step) ==
    IF n = 0
    THEN {[frames |-> <<>>, sampled |-> <<>>, state |-> ch, panicked |-> FALSE]}
    ELSE IF n = 1
    THEN {[frames |-> <<sample(ch)>>, sampled |-> <<ch>>, state |-> ch,
           panicked |-> FALSE]}
    ELSE UNION { { [frames |-> <<sample(ch)>> \o r.frames,
                    sampled |-> <<ch>> \o r.sampled,
                    state |-> r.state,
                    panicked |-> r.panicked] :
                       r \in ChannelRunsHoldLast(c, n - 1, step) } :
                 c \in advance(ch, step) }

\* the closure of lines 199-206 on one channel: sample, then advance, n times.
\* Every run it can make: the frames, the states they were sampled in, and the
\* state the channel is left in.
\* A run ends where sample() panics.
RECURSIVE ChannelRuns(_, _, _)
ChannelRuns(ch, n, step) ==
    IF n = 0
    THEN {[frames |-> <<>>, sampled |-> <<>>, state |-> ch, panicked |-> FALSE]}
    ELSE IF SamplePanics(ch)
    THEN {[frames |-> <<>>, sampled |-> <<ch>>, state |-> ch, panicked |-> TRUE]}
    ELSE UNION { { [frames |-> <<sample(ch)>> \o r.frames,
                    sampled |-> <<ch>> \o r.sampled,
                    state |-> r.state,
                    panicked |-> r.panicked] :
                       r \in ChannelRuns(c, n - 1, step) } :
                 c \in advance(ch, step) }

\* par_iter_mut().map(..).collect(): one run per channel, in channel order
RECURSIVE AllRuns(_, _, _)
AllRuns(chs, n, step) ==
    IF chs = <<>> THEN {<<>>}
    ELSE { <<r>> \o rest : r \in ChannelRuns(Head(chs), n, step),
                           rest \in AllRuns(Tail(chs), n, step) }

\* the inner loop of lines 216-220 for frame i (from 1) and side (1 left, 2 right),
\* over the first k channels
RECURSIVE MixSum(_, _, _, _, _)
MixSum(collected, k, i, side, amplitude) ==
    IF k = 0 THEN 0
    ELSE FAdd(MixSum(collected, k - 1, i, side, amplitude),
              FMul(collected[k].frames[i][side], amplitude))

\* faulty variant: the sums are added to what the slice holds
MixAccumulating(buf, collected, frames_to_generate, amplitude) ==
    [j \in 1..Len(buf) |->
        IF (j - 1) \div 2 < frames_to_generate
        THEN FAdd(buf[j], MixSum(collected, Len(collected), (j - 1) \div 2 + 1,
                                 2 - (j % 2), amplitude))
        ELSE buf[j]]

\* lines 211-221: the slice after mixing frames_to_generate frames into it
Mix(buf, collected, frames_to_generate, amplitude) ==
    [j \in 1..Len(buf) |->
        IF (j - 1) \div 2 < frames_to_generate
        THEN MixSum(collected, Len(collected), (j - 1) \div 2 + 1,
                    2 - (j % 2), amplitude)
        ELSE buf[j]]

NoCommand == [op |-> "none", value |-> 0, rate |-> 0, table |-> <<>>]

\* what a call returned: the Result, with the arguments of the call
NoResult ==
    [op |-> "new", ok |-> TRUE, kind |-> "none", len |-> 0, generated |-> 0,
     remaining_samples |-> 0, slice_length |-> 0, max_channels_of_chip |-> 0,
     attempted_channel |-> 0, attempted_waveform |-> 0, channel |-> 0,
     command |-> NoCommand]

\* no generate call is under way
Idle == [at |-> "idle", len |-> 0, frames_to_generate |-> 0, entry |-> <<>>]

\* no generate call has been followed yet
NoFill == [channels |-> <<>>, remaining_frames |-> 0, commands |-> -1, out |-> <<>>]

\* what the caller's slice holds before generate writes to it
BufferFill == 7 * ONE

NoRamp == [amplitude |-> 0, panning |-> 0]

\* the current values of a channel
CurrentValues(ch) ==
    [amplitude |-> ch.amplitude, panning |-> ch.panning, frequency |-> ch.frequency]

\* faulty variant: no validation
NeverUneven(len) == FALSE

\* the validation of generate, line 184
IsUneven(len) == len % 2 # 0

\* faulty variant: the two fields of the error are exchanged
InvalidChannelSwapped(count, channel) ==
    [NoResult EXCEPT !.ok = FALSE, !.kind = "InvalidChannel",
                     !.max_channels_of_chip = channel,
                     !.attempted_channel = count]

\* the error of send_command, lines 236-239
InvalidChannel(count, channel) ==
    [NoResult EXCEPT !.ok = FALSE, !.kind = "InvalidChannel",
                     !.max_channels_of_chip = count,
                     !.attempted_channel = channel]

\* ChipState::generate on a slice of len elements.  A panic of sample() in a
\* worker leaves generate as a panic, after the tick was started and before
\* the mixing; the other workers are taken to have finished, and the chip is
\* followed no further.
GenerateCore(len) ==
    LET buf == [j \in 1..len |-> BufferFill]
    IN
    /\ result.kind \notin {"panic", "hang"}
    /\ buffer_before' = buf
    /\ calls' = calls + 1
    /\ UNCHANGED <<parameters, commands, last_command, ramp_from, slide_from,
                   custom_sent, in_generate, noise_calls>>
    /\ IF IsUneven(len)
       THEN /\ result' = [NoResult EXCEPT !.op = "generate", !.ok = FALSE,
                                          !.kind = "UnevenBufferSlice",
                                          !.len = len, !.slice_length = len]
            /\ buffer' = buf
            /\ frame_vecs' = <<>>
            /\ UNCHANGED <<channels, remaining_frames, total_frames, ticks,
                           tick_start, advances>>
       ELSE LET timestep == parameters.timestep
                started == StartTick(remaining_frames, parameters)
                frames_to_generate == FramesToGenerate(started, len)
                left == SpendFrames(started, frames_to_generate)
                remaining_samples == RemainingSamples(left)
            IN  \E collected \in AllRuns(channels, frames_to_generate, timestep) :
                    /\ channels' = [i \in 1..Len(channels) |-> collected[i].state]
                    /\ frame_vecs' = collected
                    /\ tick_start' = IF FLt(remaining_frames, ONE)
                                     THEN total_frames ELSE tick_start
                    /\ advances' = [i \in 1..Len(channels) |->
                                        advances[i] + Len(collected[i].frames)]
                    /\ IF \E i \in 1..Len(channels) : collected[i].panicked
                       THEN /\ buffer' = buf
                            /\ remaining_frames' = started
                            /\ result' = [NoResult EXCEPT !.op = "generate",
                                              !.ok = FALSE, !.kind = "panic",
                                              !.len = len]
                            /\ UNCHANGED <<total_frames, ticks>>
                       ELSE /\ buffer' = Mix(buf, collected, frames_to_generate,
                                             parameters.amplitude)
                            /\ remaining_frames' = left
                            /\ result' = [NoResult EXCEPT !.op = "generate",
                                              !.len = len,
                                              !.generated = frames_to_generate * 2,
                                              !.remaining_samples = remaining_samples]
                            /\ total_frames' = total_frames + frames_to_generate
                            /\ ticks' = IF remaining_samples = 0
                                        THEN ticks + 1 ELSE ticks

GenerateBody(len) == GenerateCore(len) /\ UNCHANGED fill

\* ChipState::send_command(command, channel), channel counted from 0
SendCommandBody(command, channel) ==
    /\ result.kind \notin {"panic", "hang"}
    /\ commands' = commands + 1
    /\ UNCHANGED <<parameters, remaining_frames, buffer, buffer_before,
                   total_frames, ticks, tick_start, calls, frame_vecs, in_generate,
                   noise_calls, fill>>
    /\ IF channel < Len(channels)
       THEN LET r == execute_command(channels[channel + 1], command)
            IN  /\ channels' = [channels EXCEPT ![channel + 1] = r.state]
                /\ result' = [NoResult EXCEPT !.op = "send_command", !.ok = r.ok,
                                  !.kind = r.kind,
                                  !.attempted_waveform = r.attempted_waveform,
                                  !.channel = channel, !.command = command]
                /\ IF r.ok
                   THEN /\ last_command' = [last_command EXCEPT ![channel + 1] = command]
                        /\ ramp_from' = [ramp_from EXCEPT ![channel + 1] =
                               [amplitude |-> channels[channel + 1].ramped_amplitude,
                                panning |-> channels[channel + 1].ramped_panning]]
                        /\ slide_from' = [slide_from EXCEPT ![channel + 1] =
                               CurrentValues(channels[channel + 1])]
                        /\ custom_sent' =
                               IF command.op = "SetCustomWaveform"
                               THEN [custom_sent EXCEPT ![channel + 1] = command.table]
                               ELSE custom_sent
                        /\ advances' = [advances EXCEPT ![channel + 1] = 0]
                   ELSE UNCHANGED <<last_command, ramp_from, slide_from, custom_sent,
                                    advances>>
       ELSE /\ result' = [InvalidChannel(Len(channels), channel) EXCEPT
                              !.op = "send_command", !.channel = channel,
                              !.command = command]
            /\ UNCHANGED <<channels, last_command, ramp_from, slide_from,
                           custom_sent, advances>>

-----------------------------------------------------------------------------
(* the environment: the values a host passes *)

MaxChannels == 2
MaxBufLen == 4
MaxCalls == 1
MaxCommands == 1
MaxTickCalls == 8
MaxChannelCommands == 2
MaxAdvances == 6
MaxCustomCommands == 4
MaxPhaseCommands == 3
MaxMixCommands == 3
MaxParallelCommands == 2
MaxNoiseCommands == 3
MaxNoiseAdvances == 2
MaxParameterGenerates == 2
MaxSplitCalls == 3
MaxSplitCommands == 2

\* samplerate (usize, hertz)
SampleRates == {1000, 2000}
\* tick_rate (f32, ticks per second): tick_frames is 2, 5/4, 1/4 resp. 4, 5/2, 1/2
TickRates == {500 * ONE, 800 * ONE, 4000 * ONE}
\* the global amplitude (f32)
Amplitudes == {ONE \div 2, ONE}

Cmd(op, value, rate) == [op |-> op, value |-> value, rate |-> rate, table |-> <<>>]

\* a custom waveform with entries below -1 and above 1: -2, -15/8, .., 15/8
RampTable == [i \in 0..(CUSTOM_WIDTH - 1) |-> (i - 16) * (ONE \div 8)]

AmplitudeCommands ==
    {Cmd("ForceSetAmplitude", v, 0) : v \in {-(ONE \div 2), (3 * ONE) \div 2}}
    \cup {Cmd("SetAmplitude", v, 0) : v \in {ONE \div 4, (3 * ONE) \div 2}}
    \cup {Cmd("AmplitudeSlide", -(ONE \div 2), -250 * ONE),
          Cmd("AmplitudeSlide", ONE, 500 * ONE)}

PanningCommands ==
    {Cmd("ForceSetPanning", v, 0) : v \in {-((3 * ONE) \div 2), ONE \div 2}}
    \cup {Cmd("SetPanning", v, 0) : v \in {-(ONE \div 4), (3 * ONE) \div 2}}
    \cup {Cmd("PanningSlide", -2 * ONE, 500 * ONE),
          Cmd("PanningSlide", ONE \div 2, -250 * ONE)}

FrequencyCommands ==
    {Cmd("SetFrequency", v, 0) : v \in {-100 * ONE, 250 * ONE}}
    \cup {Cmd("FrequencySlide", -100 * ONE, 500000 * ONE),
          Cmd("FrequencySlide", 500 * ONE, -500000 * ONE)}

WaveformCommands ==
    {Cmd("SetWaveform", i, 0) : i \in {4, 6, 7, 8}}
    \cup {[op |-> "SetCustomWaveform", value |-> 0, rate |-> 0, table |-> RampTable]}
    \cup {Cmd("SetPhase", v, 0) : v \in {-(ONE \div 4), (7 * ONE) \div 4}}

\* the commands a host sends: every variant, arguments inside and outside the
\* documented ranges
Commands == AmplitudeCommands \cup PanningCommands \cup FrequencyCommands
            \cup WaveformCommands

\* one command of every variant, and the waveform indices around the limit
ChipCommands ==
    {Cmd("ForceSetAmplitude", (3 * ONE) \div 2, 0),
     Cmd("SetAmplitude", ONE \div 4, 0),
     Cmd("AmplitudeSlide", ONE, 500 * ONE),
     Cmd("SetFrequency", 250 * ONE, 0),
     Cmd("FrequencySlide", 500 * ONE, -500000 * ONE),
     Cmd("ForceSetPanning", ONE \div 2, 0),
     Cmd("SetPanning", -(ONE \div 4), 0),
     Cmd("PanningSlide", -2 * ONE, 500 * ONE),
     Cmd("SetWaveform", 4, 0), Cmd("SetWaveform", 6, 0),
     Cmd("SetWaveform", 7, 0), Cmd("SetWaveform", 8, 0),
     [op |-> "SetCustomWaveform", value |-> 0, rate |-> 0, table |-> RampTable],
     Cmd("SetPhase", -(ONE \div 4), 0)}

\* a custom waveform holding a NaN
NaNTable == [i \in 0..(CUSTOM_WIDTH - 1) |-> IF i = 3 THEN NaN ELSE ONE \div 2]

\* commands whose f32 argument is NaN
NaNCommands ==
    {Cmd(op, NaN, 0) : op \in {"ForceSetAmplitude", "SetAmplitude", "ForceSetPanning",
                               "SetPanning", "SetFrequency", "SetPhase"}}
    \cup {Cmd(op, NaN, 500 * ONE) : op \in {"AmplitudeSlide", "PanningSlide",
                                            "FrequencySlide"}}
    \cup {Cmd("AmplitudeSlide", ONE, NaN), Cmd("PanningSlide", ONE \div 2, NaN),
          Cmd("FrequencySlide", 500 * ONE, NaN)}
    \cup {[op |-> "SetCustomWaveform", value |-> 0, rate |-> 0, table |-> NaNTable]}

-----------------------------------------------------------------------------
(* the chip driven by a host: generate and send_command *)

\* ChipState::new(n, ChipParameters::new(samplerate, amplitude, tick_rate))
NewChip(n, samplerate, amplitude, tick_rate) ==
    /\ channels = [i \in 1..n |-> NewChannel]
    /\ parameters = NewParameters(samplerate, amplitude, tick_rate)
    /\ remaining_frames = 0
    /\ buffer = <<>>
    /\ buffer_before = <<>>
    /\ result = NoResult
    /\ total_frames = 0
    /\ ticks = 0
    /\ tick_start = 0
    /\ calls = 0
    /\ commands = 0
    /\ last_command = [i \in 1..n |-> NoCommand]
    /\ ramp_from = [i \in 1..n |-> NoRamp]
    /\ slide_from = [i \in 1..n |-> CurrentValues(NewChannel)]
    /\ custom_sent = [i \in 1..n |-> NewChannel.custom_waveform]
    /\ frame_vecs = <<>>
    /\ in_generate = Idle
    /\ noise_calls = 0
    /\ fill = NoFill
    /\ advances = [i \in 1..n |-> 0]

Init ==
    \E n \in 0..MaxChannels, samplerate \in SampleRates :
        NewChip(n, samplerate, ONE \div 2, 800 * ONE)

Generate == \E len \in 0..MaxBufLen : calls < MaxCalls /\ GenerateBody(len)

SendCommand ==
    \E command \in ChipCommands, channel \in 0..MaxChannels :
        commands < MaxCommands /\ SendCommandBody(command, channel)

Next == Generate \/ SendCommand

Spec == Init /\ [][Next]_vars

-----------------------------------------------------------------------------
(* the chip filling buffers over many ticks, no command in between *)

GenerateTick == \E len \in 0..MaxBufLen : calls < MaxTickCalls /\ GenerateBody(len)

InitTick ==
    \E n \in 0..MaxChannels, samplerate \in SampleRates,
       tick_rate \in TickRates, amplitude \in Amplitudes :
        NewChip(n, samplerate, amplitude, tick_rate)

NextTick == GenerateTick

SpecTick == InitTick /\ [][NextTick]_vars

-----------------------------------------------------------------------------
(* one channel: execute_command (through send_command to channel 0 of a    *)
(* chip with one channel) and advance(timestep)                            *)

InitChannel == \E samplerate \in SampleRates : NewChip(1, samplerate, ONE, 800 * ONE)

ExecuteBody(cmds) ==
    \E command \in cmds :
        commands < MaxChannelCommands /\ SendCommandBody(command, 0)

Execute == ExecuteBody(Commands)

\* advance(timestep) on channel 0.  A call whose while loop cannot end does
\* not return, and the chip is followed no further.
AdvanceBody ==
    /\ result.kind \notin {"panic", "hang"}
    /\ calls' = calls + 1
    /\ IF AdvanceHangs(channels[1], parameters.timestep)
       THEN /\ result' = [NoResult EXCEPT !.op = "advance", !.ok = FALSE,
                                          !.kind = "hang"]
            /\ UNCHANGED <<channels, advances, noise_calls>>
       ELSE /\ \E r \in AdvanceCounted(channels[1], parameters.timestep) :
                   /\ channels' = [channels EXCEPT ![1] = r.state]
                   /\ noise_calls' = r.noise_calls
            /\ advances' = [advances EXCEPT ![1] = @ + 1]
            /\ result' = [NoResult EXCEPT !.op = "advance"]
    /\ UNCHANGED <<parameters, remaining_frames, buffer, buffer_before,
                   total_frames, ticks, tick_start, commands, last_command,
                   ramp_from, slide_from, custom_sent, frame_vecs, in_generate, fill>>

Advance == calls < MaxAdvances /\ AdvanceBody

NextChannel == Execute \/ Advance

SpecChannel == InitChannel /\ [][NextChannel]_vars

-----------------------------------------------------------------------------
(* one channel, the host passing any f32, NaN included *)

ExecuteAny == ExecuteBody(Commands \cup NaNCommands)

NextAnyArg == ExecuteAny \/ Advance

SpecAnyArg == InitChannel /\ [][NextAnyArg]_vars

-----------------------------------------------------------------------------
(* one channel playing a custom waveform: the host first sets the table, the *)
(* phase, the amplitude and the panning, and then fills buffers              *)

\* a second custom waveform: the entries of RampTable in another order
ShuffledTable == [i \in 0..(CUSTOM_WIDTH - 1) |-> RampTable[(i * 5 + 3) % CUSTOM_WIDTH]]

\* SetPhase(i/32) for every index i of the table
CustomPhases ==
    {Cmd("SetPhase", (i * ONE) \div CUSTOM_WIDTH, 0) : i \in 0..(CUSTOM_WIDTH - 1)}

CustomCommands ==
    {Cmd("SetWaveform", 7, 0),
     Cmd("ForceSetAmplitude", (3 * ONE) \div 2, 0),
     Cmd("ForceSetPanning", ONE \div 2, 0),
     [op |-> "SetCustomWaveform", value |-> 0, rate |-> 0, table |-> RampTable],
     [op |-> "SetCustomWaveform", value |-> 0, rate |-> 0, table |-> ShuffledTable]}
    \cup CustomPhases

ExecuteCustom ==
    \E command \in CustomCommands :
        calls = 0 /\ commands < MaxCustomCommands /\ SendCommandBody(command, 0)

GenerateCustom == \E len \in {2, MaxBufLen} : calls < MaxCalls /\ GenerateBody(len)

NextCustom == ExecuteCustom \/ GenerateCustom

SpecCustom == InitChannel /\ [][NextCustom]_vars

-----------------------------------------------------------------------------
(* one channel whose phase the host sets, with any finite f32, while it     *)
(* fills buffers                                                             *)

PhaseCommands ==
    {Cmd("SetPhase", v, 0) : v \in {-(ONE \div 4), (7 * ONE) \div 4, Tiny}}
    \cup {Cmd("SetWaveform", 3, 0), Cmd("SetWaveform", 7, 0),
          Cmd("SetFrequency", 0, 0),
          Cmd("ForceSetAmplitude", ONE, 0)}

ExecutePhase ==
    \E command \in PhaseCommands :
        commands < MaxPhaseCommands /\ SendCommandBody(command, 0)

NextPhase == ExecutePhase \/ Generate

SpecPhase == InitChannel /\ [][NextPhase]_vars

-----------------------------------------------------------------------------
(* several channels made audible and mixed *)

MixCommands ==
    {Cmd("ForceSetAmplitude", (3 * ONE) \div 2, 0),
     Cmd("ForceSetPanning", ONE \div 2, 0),
     Cmd("SetWaveform", 4, 0)}

InitMix ==
    \E n \in 0..MaxChannels, samplerate \in SampleRates, amplitude \in Amplitudes :
        NewChip(n, samplerate, amplitude, 800 * ONE)

ExecuteMix ==
    \E command \in MixCommands, channel \in 0..MaxChannels :
        commands < MaxMixCommands /\ SendCommandBody(command, channel)

NextMix == ExecuteMix \/ Generate

SpecMix == InitMix /\ [][NextMix]_vars

-----------------------------------------------------------------------------
(* generate step by step: the workers of par_iter_mut, one per channel, take *)
(* their steps in any order; collect() joins them; then the frames are mixed *)

ParallelCommands ==
    {Cmd("SetWaveform", 6, 0),
     Cmd("SetPhase", (7 * ONE) \div 4, 0),
     Cmd("ForceSetAmplitude", (3 * ONE) \div 2, 0)}

\* generate holds the chip exclusively (&mut self): commands come between calls
SendCommandBetweenCalls ==
    \E command \in ParallelCommands, channel \in 0..MaxChannels :
        /\ in_generate.at = "idle"
        /\ commands < MaxParallelCommands
        /\ SendCommandBody(command, channel)

\* lines 184-195 and the start of the workers; an odd slice is refused at once
BeginGenerate ==
    \E len \in 0..MaxBufLen :
        /\ in_generate.at = "idle"
        /\ calls < MaxCalls
        /\ IF IsUneven(len)
           THEN GenerateBody(len)
           ELSE LET started == StartTick(remaining_frames, parameters)
                    buf == [j \in 1..len |-> BufferFill]
                IN  /\ result.kind \notin {"panic", "hang"}
                    /\ in_generate' =
                           [at |-> "workers", len |-> len,
                            frames_to_generate |-> FramesToGenerate(started, len),
                            entry |-> channels]
                    /\ remaining_frames' = started
                    /\ frame_vecs' = [c \in 1..Len(channels) |->
                           [frames |-> <<>>, sampled |-> <<>>,
                            state |-> channels[c], panicked |-> FALSE]]
                    /\ tick_start' = IF FLt(remaining_frames, ONE)
                                     THEN total_frames ELSE tick_start
                    /\ calls' = calls + 1
                    /\ buffer_before' = buf
                    /\ buffer' = buf
                    /\ result' = [NoResult EXCEPT !.op = "generating", !.len = len]
                    /\ UNCHANGED <<channels, parameters, total_frames, ticks, commands,
                                   last_command, ramp_from, slide_from, custom_sent,
                                   advances, noise_calls, fill>>

\* faulty variant: every worker samples the first channel
WorkerStepShared(chs, vecs, c, step) ==
    { [channels |-> [chs EXCEPT ![c] = next],
       frame_vecs |-> [vecs EXCEPT ![c] =
           [frames |-> Append(@.frames, sample(chs[1])),
            sampled |-> Append(@.sampled, chs[c]),
            state |-> next, panicked |-> FALSE]]] :
      next \in advance(chs[c], step) }

\* one pass of the loop of lines 201-204 in the worker of channel c: what it
\* can make of the channels and of the frames
WorkerStepOf(chs, vecs, c, step) ==
    { [channels |-> [chs EXCEPT ![c] = next],
       frame_vecs |-> [vecs EXCEPT ![c] =
           [frames |-> Append(@.frames, sample(chs[c])),
            sampled |-> Append(@.sampled, chs[c]),
            state |-> next, panicked |-> FALSE]]] :
      next \in advance(chs[c], step) }

WorkerStep ==
    \E c \in 1..Len(channels) :
        /\ in_generate.at = "workers"
        /\ Len(frame_vecs[c].frames) < in_generate.frames_to_generate
        /\ \E w \in WorkerStepOf(channels, frame_vecs, c, parameters.timestep) :
               /\ channels' = w.channels
               /\ frame_vecs' = w.frame_vecs
        /\ advances' = [advances EXCEPT ![c] = @ + 1]
        /\ UNCHANGED <<parameters, remaining_frames, buffer, buffer_before, result,
                       total_frames, ticks, tick_start, calls, commands,
                       last_command, ramp_from, slide_from, custom_sent, in_generate,
                       noise_calls, fill>>

\* collect() returns when every worker has filled its frames
WorkersDone ==
    \A c \in 1..Len(channels) :
        Len(frame_vecs[c].frames) = in_generate.frames_to_generate

\* lines 207-226: the join, the mixing and the return
JoinAndMix ==
    /\ in_generate.at = "workers"
    /\ WorkersDone
    /\ LET frames_to_generate == in_generate.frames_to_generate
           left == SpendFrames(remaining_frames, frames_to_generate)
           remaining_samples == RemainingSamples(left)
       IN  /\ buffer' = Mix(buffer, frame_vecs, frames_to_generate,
                            parameters.amplitude)
           /\ remaining_frames' = left
           /\ result' = [NoResult EXCEPT !.op = "generate", !.len = in_generate.len,
                             !.generated = frames_to_generate * 2,
                             !.remaining_samples = remaining_samples]
           /\ total_frames' = total_frames + frames_to_generate
           /\ ticks' = IF remaining_samples = 0 THEN ticks + 1 ELSE ticks
    /\ in_generate' = [Idle EXCEPT !.entry = in_generate.entry]
    /\ UNCHANGED <<channels, parameters, buffer_before, tick_start, calls, commands,
                   last_command, ramp_from, slide_from, custom_sent, frame_vecs,
                   advances, noise_calls, fill>>

NextParallel == SendCommandBetweenCalls \/ BeginGenerate \/ WorkerStep \/ JoinAndMix

SpecParallel == Init /\ [][NextParallel]_vars

-----------------------------------------------------------------------------
(* one channel as a noise source: frequencies of more than one wrap per     *)
(* advance, and a frequency beyond the reach of `period -= 1.0`             *)

NoiseCommands ==
    {Cmd("SetWaveform", 6, 0), Cmd("SetWaveform", 3, 0),
     Cmd("SetFrequency", 1500 * ONE, 0), Cmd("SetFrequency", 2000 * ONE, 0),
     Cmd("SetFrequency", Huge, 0),
     Cmd("SetPhase", (7 * ONE) \div 4, 0)}

ExecuteNoise ==
    \E command \in NoiseCommands :
        commands < MaxNoiseCommands /\ SendCommandBody(command, 0)

AdvanceNoise == calls < MaxNoiseAdvances /\ AdvanceBody

NextNoise == ExecuteNoise \/ AdvanceNoise

SpecNoise == InitChannel /\ [][NextNoise]_vars

-----------------------------------------------------------------------------
(* the chip with its parameters changed between calls: chip.parameters is  *)
(* public, its fields are reached through set_sample_rate and set_tick_rate *)

\* the sample rates and tick rates a host changes to
NewSampleRates == {500, 2000}
NewTickRates == {500 * ONE, 4000 * ONE}

ParameterCommands ==
    {Cmd("ForceSetAmplitude", ONE, 0), Cmd("SetWaveform", 4, 0),
     Cmd("SetWaveform", 8, 0)}

\* a setter call: the chip apart from its parameters is left alone
SetterBody(op, p) ==
    /\ result.kind \notin {"panic", "hang"}
    /\ parameters' = p
    /\ result' = [NoResult EXCEPT !.op = op]
    /\ UNCHANGED <<channels, remaining_frames, buffer, buffer_before, total_frames,
                   ticks, tick_start, calls, commands, last_command, ramp_from,
                   slide_from, custom_sent, frame_vecs, in_generate, noise_calls,
                   fill, advances>>

SetSampleRate ==
    \E samplerate \in NewSampleRates :
        SetterBody("set_sample_rate", set_sample_rate(parameters, samplerate))

SetTickRate ==
    \E tick_rate \in NewTickRates :
        SetterBody("set_tick_rate", set_tick_rate(parameters, tick_rate))

GenerateParameters ==
    \E len \in {1, 2, MaxBufLen} : calls < MaxParameterGenerates /\ GenerateBody(len)

SendCommandParameters ==
    \E command \in ParameterCommands, channel \in 0..1 :
        /\ commands < MaxCommands
        /\ SendCommandBody(command, channel)

NextParameters ==
    SetSampleRate \/ SetTickRate \/ GenerateParameters \/ SendCommandParameters

SpecParameters == InitChannel /\ [][NextParameters]_vars

-----------------------------------------------------------------------------
(* the chip filling ticks through slices of any length, its channels on    *)
(* waveforms without noise                                                 *)

SplitCommands ==
    {Cmd("ForceSetAmplitude", ONE, 0), Cmd("SetWaveform", 3, 0),
     Cmd("SetPanning", ONE \div 2, 0)}

\* ticks of 2 and 5/4 frames at 1000 Hz, of 4 and 5/2 frames at 2000 Hz
InitSplit ==
    \E n \in {1, MaxChannels}, samplerate \in SampleRates,
       tick_rate \in {500 * ONE, 800 * ONE} :
        NewChip(n, samplerate, ONE, tick_rate)

SendCommandSplit ==
    \E command \in SplitCommands :
        commands < MaxSplitCommands /\ SendCommandBody(command, 0)

\* generate, and the record of the run of calls it belongs to: a run begins
\* with the call that starts a tick and with the first call after a command
GenerateSplit ==
    \E len \in {0, 1, 2, 2 * (MaxBufLen \div 2)} :
        /\ calls < MaxSplitCalls
        /\ GenerateCore(len)
        /\ fill' =
              IF result'.ok
              THEN LET produced == SubSeq(buffer', 1, result'.generated)
                   IN  IF FLt(remaining_frames, ONE) \/ commands # fill.commands
                       THEN [channels |-> channels,
                             remaining_frames |-> remaining_frames,
                             commands |-> commands, out |-> produced]
                       ELSE [fill EXCEPT !.out = @ \o produced]
              ELSE fill

NextSplit == SendCommandSplit \/ GenerateSplit

SpecSplit == InitSplit /\ [][NextSplit]_vars

-----------------------------------------------------------------------------
(* Properties of the tick accounting, checked under SpecTick *)

GenerateReturned == result.op = "generate" /\ result.ok
TickCompleted == GenerateReturned /\ result.remaining_samples = 0
FloorFrames(x) == x \div ONE
CeilFrames(x) == -((-x) \div ONE)

\* C1: with constant parameters, when the k-th call that returns
\* remaining_samples = 0 has returned, floor(k * tick_frames) frames have been
\* generated in all, and the tick it ends was floor(tick_frames) or
\* ceil(tick_frames) frames long, whatever the lengths of the slices.
TickAccountingNoDrift ==
    TickCompleted =>
        /\ total_frames = FloorFrames(ticks * parameters.tick_frames)
        /\ total_frames - tick_start \in {FloorFrames(parameters.tick_frames),
                                          CeilFrames(parameters.tick_frames)}

\* a tick of 5/2 frames that took three frames, in more than one call, after
\* a tick of two frames
TickAccountingWitness ==
    /\ TickCompleted
    /\ parameters.tick_frames = (5 * ONE) \div 2
    /\ ticks = 2
    /\ total_frames - tick_start = 3
    /\ result.generated = 2

\* the positions of the slice the last call wrote
Written == {j \in 1..Len(buffer) : buffer[j] # buffer_before[j]}

\* C2: a successful generate call produces min(floor(remaining_frames after
\* the lazy tick start), buffer_len/2) frames and returns twice that: an even
\* number, at most the length of the slice, at most what the tick still owes,
\* and exactly the number of samples written.
GeneratedIsMinOfTickAndBuffer ==
    GenerateReturned =>
        LET frames == result.generated \div 2
            started == remaining_frames + frames * ONE
        IN  /\ result.generated % 2 = 0
            /\ frames = Min(FloorFrames(started), result.len \div 2)
            /\ result.generated <= result.len
            /\ frames * ONE <= started
            /\ Written = 1..result.generated

\* a slice of four samples of which the end of the tick let only two be written
GeneratedWitness ==
    /\ GenerateReturned
    /\ result.len = 4
    /\ result.generated = 2
    /\ Len(channels) = 2
    /\ total_frames > 2

\* C3: remaining_samples is 2 * floor(remaining_frames) after the frames of
\* the call are subtracted; it is non-zero exactly when the slice, not the tick,
\* limited the call; it is zero exactly when the tick boundary is reached
\* (less than one frame is left), and then the next successful call adds
\* tick_frames, otherwise it adds nothing.
RemainingSamplesTellTick ==
    [][(result'.op = "generate" /\ result'.ok) =>
          LET frames == result'.generated \div 2
              started == remaining_frames' + frames * ONE
          IN  /\ result'.remaining_samples = 2 * FloorFrames(remaining_frames')
              /\ (result'.remaining_samples # 0) <=>
                    (frames = result'.len \div 2 /\ frames < FloorFrames(started))
              /\ (result'.remaining_samples = 0) <=> (remaining_frames' < ONE)
              /\ started = IF remaining_frames < ONE
                           THEN remaining_frames + parameters.tick_frames
                           ELSE remaining_frames]_vars

\* a call that a slice of two samples cut short, two frames of the tick left
RemainingSamplesWitness ==
    /\ GenerateReturned
    /\ result.remaining_samples = 4
    /\ result.generated = 2
    /\ ticks > 0

\* C4: a generate call on a non-empty slice of even length returns
\* generated # 0.
GenerateMakesProgress ==
    (GenerateReturned /\ result.len > 0) => result.generated # 0

\* C4, for a chip whose tick is at least one frame long
GenerateMakesProgressLongTick ==
    (GenerateReturned /\ result.len > 0 /\ parameters.tick_frames >= ONE) =>
        result.generated # 0

\* C5: generate on a slice of odd length returns UnevenBufferSlice with the
\* length of the slice, writes nothing, and changes nothing of the chip.
UnevenBufferRejected ==
    [][(result'.op = "generate" /\ result'.len % 2 = 1) =>
          /\ ~result'.ok
          /\ result'.kind = "UnevenBufferSlice"
          /\ result'.slice_length = result'.len
          /\ buffer' = buffer_before'
          /\ channels' = channels
          /\ remaining_frames' = remaining_frames
          /\ parameters' = parameters
          /\ total_frames' = total_frames]_vars

\* an odd slice handed to a chip with two channels that is about to start a tick
UnevenBufferWitness ==
    /\ result.kind = "UnevenBufferSlice"
    /\ result.slice_length = 3
    /\ Len(channels) = 2
    /\ total_frames > 0
    /\ remaining_frames < ONE

-----------------------------------------------------------------------------
(* Properties of send_command *)

\* C6: send_command with a channel index >= the channel count returns
\* InvalidChannel with max_channels_of_chip the channel count and
\* attempted_channel the index, and changes no channel, no parameter and not
\* remaining_frames; with a smaller index it never returns InvalidChannel.
InvalidChannelRejected ==
    [][result'.op = "send_command" =>
          IF result'.channel >= Len(channels)
          THEN /\ ~result'.ok
               /\ result'.kind = "InvalidChannel"
               /\ result'.max_channels_of_chip = Len(channels)
               /\ result'.attempted_channel = result'.channel
               /\ channels' = channels
               /\ parameters' = parameters
               /\ remaining_frames' = remaining_frames
          ELSE result'.kind # "InvalidChannel"]_vars

\* a command sent to channel 2 of a chip with one channel that has generated
InvalidChannelWitness ==
    /\ result.kind = "InvalidChannel"
    /\ Len(channels) = 1
    /\ result.attempted_channel = 2
    /\ total_frames > 0

\* C7: SetWaveform(i) with i > 7 fails with InvalidWaveform carrying i,
\* send_command returns that error, and the channel is unchanged; with i <= 7
\* it succeeds and sets waveform to i; so waveform stays within 0..7.
WaveformValidated ==
    [][/\ \A i \in 1..Len(channels') : channels'[i].waveform \in 0..7
       /\ (result'.op = "send_command" /\ result'.command.op = "SetWaveform"
             /\ result'.channel < Len(channels)) =>
              LET i == result'.command.value
              IN  IF i > 7
                  THEN /\ ~result'.ok
                       /\ result'.kind = "InvalidWaveform"
                       /\ result'.attempted_waveform = i
                       /\ channels' = channels
                  ELSE /\ result'.ok
                       /\ channels'[result'.channel + 1].waveform = i]_vars

\* SetWaveform(8) refused by a channel that SetWaveform(7) had set to custom
WaveformWitness ==
    /\ result.kind = "InvalidWaveform"
    /\ result.attempted_waveform = 8
    /\ channels[1].waveform = 7

-----------------------------------------------------------------------------
(* Properties of one channel *)

InRange(x, lo, hi) == FGe(x, lo) /\ FGe(hi, x)

ChannelInRange(ch) ==
    /\ InRange(ch.amplitude, 0, ONE)
    /\ InRange(ch.ramped_amplitude, 0, ONE)
    /\ InRange(ch.amplitude_slide_target, 0, ONE)
    /\ InRange(ch.panning, -ONE, ONE)
    /\ InRange(ch.ramped_panning, -ONE, ONE)
    /\ InRange(ch.panning_slide_target, -ONE, ONE)
    /\ ~IsNaN(ch.frequency) /\ ch.frequency >= 0
    /\ ~IsNaN(ch.frequency_slide_target) /\ ch.frequency_slide_target >= 0
    /\ \A i \in 0..(CUSTOM_WIDTH - 1) : InRange(ch.custom_waveform[i], -ONE, ONE)

\* C8: in every state reachable by commands with any arguments and any rates
\* and by advance steps, the amplitudes are in [0,1], the pannings in [-1,1],
\* the frequencies >= 0 and the custom waveform entries in [-1,1].
ChannelRangeInvariant == \A i \in 1..Len(channels) : ChannelInRange(channels[i])

\* the clamp of a number
ClampTo(v, lo, hi) == Max(lo, Min(hi, v))

\* C9: after ForceSetAmplitude(v) (ForceSetPanning(v)) and any number of
\* advance steps, with no other command, the current value, the ramped value
\* and the slide target all equal clamp(v), and sample() uses that factor.
ForceSetIsImmediate ==
    \A i \in 1..Len(channels) :
        LET ch == channels[i]
            cmd == last_command[i]
            wave == WaveValue(ch)
        IN  /\ cmd.op = "ForceSetAmplitude" =>
                 LET c == ClampTo(cmd.value, 0, ONE)
                 IN  /\ ch.amplitude = c
                     /\ ch.ramped_amplitude = c
                     /\ ch.amplitude_slide_target = c
                     /\ sample(ch) = <<FMul(FMul(wave, c), LeftGain(ch)),
                                       FMul(FMul(wave, c), RightGain(ch))>>
            /\ cmd.op = "ForceSetPanning" =>
                 LET c == ClampTo(cmd.value, -ONE, ONE)
                     out == FMul(wave, ch.ramped_amplitude)
                 IN  /\ ch.panning = c
                     /\ ch.ramped_panning = c
                     /\ ch.panning_slide_target = c
                     /\ sample(ch) = <<FMul(out, Min(ONE - c, ONE)),
                                       FMul(out, Min(ONE + c, ONE))>>

\* ForceSetAmplitude(3/2) on a channel with a slide rate, ramped amplitude 0
\* before, two advances later
ForceSetWitness ==
    /\ last_command[1].op = "ForceSetAmplitude"
    /\ last_command[1].value > ONE
    /\ ramp_from[1].amplitude = 0
    /\ channels[1].ramped_amplitude = ONE
    /\ channels[1].amplitude_rate # 0
    /\ advances[1] >= 2

\* RAMPING_RATE * step for step = 1/samplerate
RampStep == (RAMPING_RATE * ONE) \div parameters.samplerate

\* the point dist away from from in the direction of to, at most to
Toward(from, to, dist) ==
    IF to >= from THEN Min(to, from + dist) ELSE Max(to, from - dist)

SlideStep(rate) == Abs(rate) \div parameters.samplerate

\* what a slide command leaves of channel ch: only the target and the rate differ
AfterSlide(ch, cmd) ==
    CASE cmd.op = "AmplitudeSlide" ->
            [ch EXCEPT !.amplitude_slide_target = ClampTo(cmd.value, 0, ONE),
                       !.amplitude_rate = cmd.rate]
      [] cmd.op = "PanningSlide" ->
            [ch EXCEPT !.panning_slide_target = ClampTo(cmd.value, -ONE, ONE),
                       !.panning_rate = cmd.rate]
      [] cmd.op = "FrequencySlide" ->
            [ch EXCEPT !.frequency_slide_target = Max(cmd.value, 0),
                       !.frequency_rate = cmd.rate]

IsSlide(cmd) == cmd.op \in {"AmplitudeSlide", "PanningSlide", "FrequencySlide"}

\* n advance steps after a slide command: the current value is n * |rate| * step
\* nearer to the target than it was, or at the target
Gliding(i) ==
    LET ch == channels[i]
        cmd == last_command[i]
        dist == advances[i] * SlideStep(cmd.rate)
    IN  /\ cmd.op = "AmplitudeSlide" =>
             ch.amplitude = Toward(slide_from[i].amplitude,
                                   ClampTo(cmd.value, 0, ONE), dist)
        /\ cmd.op = "PanningSlide" =>
             ch.panning = Toward(slide_from[i].panning,
                                 ClampTo(cmd.value, -ONE, ONE), dist)
        /\ cmd.op = "FrequencySlide" =>
             ch.frequency = Toward(slide_from[i].frequency, Max(cmd.value, 0), dist)

-----------------------------------------------------------------------------
(* Properties of sample() *)

\* the six waveform functions on every period of the grid in [0,1)
TonalWaveformsInRange ==
    \A p \in 0..(ONE - 1) :
        \A v \in {sine(p), triangle(p), rec_sine(p), saw(p), square(p), pulse(p)} :
            InRange(v, -ONE, ONE)

\* C12: for the waveforms 0 to 6, in every reachable channel state with period
\* in [0,1), both sides of sample() are in [-1,1], and the held noise_sample
\* of the leaky integration is in [-1,1].
SampleInRange ==
    \A i \in 1..Len(channels) :
        LET ch == channels[i]
        IN  (ch.waveform \in 0..6 /\ InRange(ch.period, 0, ONE - 1)) =>
                /\ InRange(sample(ch)[1], -ONE, ONE)
                /\ InRange(sample(ch)[2], -ONE, ONE)
                /\ InRange(ch.noise_sample, -ONE, ONE)

\* C12 without the noise waveform
TonalSampleInRange ==
    \A i \in 1..Len(channels) :
        LET ch == channels[i]
        IN  (ch.waveform \in 0..5 /\ InRange(ch.period, 0, ONE - 1)) =>
                /\ InRange(sample(ch)[1], -ONE, ONE)
                /\ InRange(sample(ch)[2], -ONE, ONE)

\* what sample() returns for the waveform value v in channel ch
Scaled(v, ch) ==
    LET out == FMul(v, ch.ramped_amplitude)
    IN  <<FMul(out, Min(ONE - ch.ramped_panning, ONE)),
          FMul(out, Min(ONE + ch.ramped_panning, ONE))>>

\* C13: SetCustomWaveform(w) stores the element-wise clamp of w, in the order
\* of w, and changes nothing else; and a frame sampled from a channel with
\* waveform 7 at period i/32 is clamp(w[i], -1, 1), w the last table sent,
\* scaled by ramped_amplitude and the pan gains only, for every i in 0..31.
CustomRoundTrip ==
    [][/\ (result'.op = "send_command" /\ result'.ok
            /\ result'.command.op = "SetCustomWaveform") =>
             channels'[result'.channel + 1] =
                 [channels[result'.channel + 1] EXCEPT !.custom_waveform =
                      [i \in 0..(CUSTOM_WIDTH - 1) |->
                           ClampTo(result'.command.table[i], -ONE, ONE)]]
       /\ (result'.op = "generate" /\ result'.ok /\ result'.generated > 0) =>
             \A c \in 1..Len(channels) : \A i \in 0..(CUSTOM_WIDTH - 1) :
                 (channels[c].waveform = 7
                  /\ channels[c].period * CUSTOM_WIDTH = i * ONE) =>
                     frame_vecs'[c].frames[1] =
                         Scaled(ClampTo(custom_sent[c][i], -ONE, ONE), channels[c])]_vars

\* the last entry of the ramp table, 15/8, heard as 1 at period 31/32
CustomRoundTripWitness ==
    /\ result.op = "generate"
    /\ result.generated > 0
    /\ frame_vecs[1].sampled[1].waveform = 7
    /\ frame_vecs[1].sampled[1].period * CUSTOM_WIDTH = 31 * ONE
    /\ custom_sent[1] = RampTable
    /\ frame_vecs[1].frames[1] = <<ONE, ONE>>

\* the arguments of SetFrequency tried on every state
FrequencyValues == {NaN, -100 * ONE, 0, 250 * ONE, 440 * ONE}

\* C14: from every channel state, SetFrequency(f) executed twice in a row
\* leaves the state that executing it once leaves (so that the advance steps
\* that follow are the same).
SetFrequencyIdempotent ==
    \A i \in 1..Len(channels) : \A f \in FrequencyValues :
        LET once == SetFrequency(channels[i], f)
        IN  /\ SetFrequency(once, f) = once
            /\ once.frequency = once.frequency_slide_target

\* SetFrequency(250) sent twice in a row to a channel created at 440 Hz
SetFrequencyWitness ==
    /\ commands = 2
    /\ calls = 0
    /\ last_command[1].op = "SetFrequency"
    /\ last_command[1].value = 250 * ONE
    /\ slide_from[1].frequency = 250 * ONE
    /\ channels[1].frequency = 250 * ONE
    /\ channels[1].frequency_slide_target = 250 * ONE

-----------------------------------------------------------------------------
(* Properties of the phase *)

\* the states in which the last generate call evaluated sample()
SampledStates ==
    IF result.op = "generate"
    THEN UNION { { frame_vecs[c].sampled[k] : k \in 1..Len(frame_vecs[c].sampled) } :
                 c \in 1..Len(frame_vecs) }
    ELSE {}

\* C15: whatever commands (SetPhase with any finite argument among them) and
\* advance steps came before, period is in [0,1) whenever sample() is
\* evaluated.
PeriodInRangeWhenSampled ==
    \A ch \in SampledStates : FGe(ch.period, 0) /\ FLt(ch.period, ONE)

\* C16: whenever sample() reads the custom waveform, the index
\* floor(period * 32) as usize is in 0..31, and generate does not fail on the
\* table access.
CustomIndexInBounds ==
    /\ result.kind # "panic"
    /\ \A ch \in SampledStates :
           ch.waveform = 7 => CustomIndex(ch.period) \in 0..(CUSTOM_WIDTH - 1)

-----------------------------------------------------------------------------
(* Properties of generate *)

\* C17: in a generate call that produces n frames, the k-th frame of every
\* channel (k = 0..n-1) is sample() of the state the channel is in after
\* exactly k advance(timestep) steps from its state at the entry of the call
\* (so the first frame shows the commands sent before the call), and the
\* channel is left advanced exactly n times; a call that fails, and
\* send_command, advance no channel.
SampleThenAdvance ==
    [][/\ (result'.op = "generate" /\ result'.ok) =>
             LET n == result'.generated \div 2
                 step == parameters.timestep
             IN  /\ Len(frame_vecs') = Len(channels)
                 /\ \A c \in 1..Len(channels) :
                       LET run == frame_vecs'[c]
                       IN  /\ Len(run.frames) = n
                           /\ Len(run.sampled) = n
                           /\ advances'[c] = advances[c] + n
                           /\ \A k \in 1..n :
                                 /\ run.frames[k] = sample(run.sampled[k])
                                 /\ k = 1 => run.sampled[k] = channels[c]
                                 /\ k < n =>
                                        run.sampled[k + 1] \in advance(run.sampled[k], step)
                           /\ channels'[c] \in
                                  IF n = 0 THEN {channels[c]}
                                  ELSE advance(run.sampled[n], step)
       /\ (result'.op = "generate" /\ result'.kind = "UnevenBufferSlice") =>
             channels' = channels
       /\ result'.op = "send_command" =>
             \A c \in 1..Len(channels) :
                 /\ c # result'.channel + 1 => channels'[c] = channels[c]
                 /\ c = result'.channel + 1 =>
                        channels'[c] = execute_command(channels[c], result'.command).state]_vars

\* two frames of a channel that ForceSetAmplitude had made audible: the first
\* is sampled at phase 0, the second one advance later
SampleThenAdvanceWitness ==
    /\ result.op = "generate"
    /\ result.generated = 4
    /\ Len(channels) = 2
    /\ last_command[1].op = "ForceSetAmplitude"
    /\ frame_vecs[1].sampled[1].period = 0
    /\ frame_vecs[1].sampled[1].ramped_amplitude = ONE
    /\ frame_vecs[1].frames[1] = <<0, 0>>
    /\ frame_vecs[1].frames[2][1] > 0
    /\ advances[1] = 2

\* the sum of the samples of frame i (from 1), side 1 (left) or 2 (right), over
\* the first k channels, each multiplied by amplitude
RECURSIVE SumOfProducts(_, _, _, _, _)
SumOfProducts(vecs, k, i, side, amplitude) ==
    IF k = 0 THEN 0
    ELSE SumOfProducts(vecs, k - 1, i, side, amplitude)
         + MulDiv(vecs[k].frames[i][side], amplitude, ONE)

\* the sum of those samples
RECURSIVE SumOfSamples(_, _, _, _)
SumOfSamples(vecs, k, i, side) ==
    IF k = 0 THEN 0
    ELSE SumOfSamples(vecs, k - 1, i, side) + vecs[k].frames[i][side]

\* C18: generate sets sample j of each of the first generated/2 frames to the
\* sum over the channels of amplitude times the channel's sample of that frame
\* and side, which is amplitude times the sum of these samples up to the
\* rounding of the products; nothing of what the slice held is added; with no
\* channel the frames are 0; the samples from index generated on keep their
\* values.
MixOverwrites ==
    [][(result'.op = "generate" /\ result'.ok) =>
          LET n == result'.generated \div 2
              count == Len(channels)
              amplitude == parameters.amplitude
          IN  /\ Len(buffer') = result'.len
              /\ \A j \in 1..Len(buffer') :
                    LET i == (j - 1) \div 2 + 1
                        side == IF j % 2 = 1 THEN 1 ELSE 2
                    IN  IF i <= n
                        THEN /\ buffer'[j] =
                                    SumOfProducts(frame_vecs', count, i, side, amplitude)
                             /\ Abs(buffer'[j]
                                    - MulDiv(SumOfSamples(frame_vecs', count, i, side),
                                             amplitude, ONE)) <= count
                             /\ count = 0 => buffer'[j] = 0
                        ELSE buffer'[j] = buffer_before'[j]]_vars

\* the second frame of two audible sine channels, one of them panned right
MixWitness ==
    /\ result.op = "generate"
    /\ result.generated = 4
    /\ Len(channels) = 2
    /\ frame_vecs[1].frames[2][1] > 0
    /\ frame_vecs[2].frames[2][1] > frame_vecs[1].frames[2][1]
    /\ buffer[3] > 0
    /\ buffer[4] > buffer[3]

\* C19: whatever the order of the workers' steps, (a) a step of the worker of
\* channel c reads and writes channel c and its frames only, (b) the mixing
\* starts only when every worker has produced all its frames, and (c) the
\* frames and the final state of every channel are what running the channels
\* one after another from their states at entry can give, and the slice is
\* the mix of these frames.
ParallelIndependent ==
    [][/\ (in_generate.at = "workers" /\ in_generate'.at = "workers") =>
             \E c \in 1..Len(channels) :
                 /\ \A d \in 1..Len(channels) \ {c} :
                        channels'[d] = channels[d] /\ frame_vecs'[d] = frame_vecs[d]
                 /\ channels'[c] \in advance(channels[c], parameters.timestep)
                 /\ frame_vecs'[c].frames =
                        Append(frame_vecs[c].frames, sample(channels[c]))
                 /\ buffer' = buffer
       /\ (in_generate.at = "workers" /\ in_generate'.at = "idle") =>
             LET n == in_generate.frames_to_generate
             IN  /\ WorkersDone
                 /\ \A c \in 1..Len(channels) :
                        frame_vecs[c] \in
                            ChannelRuns(in_generate.entry[c], n, parameters.timestep)
                 /\ frame_vecs' = frame_vecs
                 /\ channels' = [c \in 1..Len(channels) |-> frame_vecs[c].state]
                 /\ buffer' = Mix(buffer_before, frame_vecs, n, parameters.amplitude)]_vars

\* the worker of the second channel, a noise channel that has drawn a value,
\* has finished both its frames while the worker of the first has made one
ParallelWitness ==
    /\ in_generate.at = "workers"
    /\ Len(channels) = 2
    /\ in_generate.frames_to_generate = 2
    /\ Len(frame_vecs[1].frames) = 1
    /\ Len(frame_vecs[2].frames) = 2
    /\ channels[2].waveform = 6
    /\ channels[2].noise_sample # 0

\* C20: in one advance(step) the ramped amplitude and panning move toward the
\* amplitude and panning of before the step, by at most RAMPING_RATE * step;
\* frequency, amplitude and panning move toward their slide targets from
\* their values of before the step; and the period grows by the frequency of
\* before the step times step, folded into one turn.
RampsBeforeSlides ==
    [][result'.op = "advance" =>
         LET old == channels[1]
             new == channels'[1]
             step == parameters.timestep
             moved == FAdd(old.period, FMulT(old.frequency, step))
         IN  /\ new.ramped_amplitude =
                    approach(old.ramped_amplitude, old.amplitude,
                             FMulT(RAMPING_RATE * ONE, step))
             /\ new.ramped_panning =
                    approach(old.ramped_panning, old.panning,
                             FMulT(RAMPING_RATE * ONE, step))
             /\ new.frequency =
                    approach(old.frequency, old.frequency_slide_target,
                             FMulT(old.frequency_rate, step))
             /\ new.amplitude =
                    approach(old.amplitude, old.amplitude_slide_target,
                             FMulT(old.amplitude_rate, step))
             /\ new.panning =
                    approach(old.panning, old.panning_slide_target,
                             FMulT(old.panning_rate, step))
             /\ new.period = FSub(moved, FFloor(moved))]_vars

\* an advance has moved the amplitude along a slide and left the ramped
\* amplitude behind it, on the way to the amplitude of before the step
RampsBeforeSlidesWitness ==
    /\ result.op = "advance"
    /\ channels[1].amplitude_rate # 0
    /\ channels[1].amplitude # slide_from[1].amplitude
    /\ channels[1].ramped_amplitude # channels[1].amplitude
    /\ channels[1].ramped_amplitude # 0

\* what an advance that has returned did about the noise: on a noise channel
\* entered with its period in [0, 1), floor(period + frequency * step)
\* noise() calls, and the noise_sample kept when that is none; on any other
\* channel no noise() call and the noise_sample kept
AdvanceCountsWraps ==
    LET old == channels[1]
        new == channels'[1]
        moved == MovePeriod(old, parameters.timestep).period
    IN  /\ (old.waveform = 6 /\ FGe(old.period, 0) /\ FLt(old.period, ONE)) =>
               /\ noise_calls' = FFloor(moved) \div ONE
               /\ noise_calls' = 0 => new.noise_sample = old.noise_sample
        /\ old.waveform # 6 =>
               /\ noise_calls' = 0
               /\ new.noise_sample = old.noise_sample

\* no command changes noise_sample
CommandKeepsNoiseSample ==
    \A i \in 1..Len(channels) : channels'[i].noise_sample = channels[i].noise_sample

\* C21: every advance returns (the while loop ends); on a noise channel entered
\* with its period in [0, 1) it has called noise() floor(period +
\* frequency * step) times and has kept noise_sample when that is 0; on a
\* channel of another waveform it has not called noise() and has kept
\* noise_sample; and no command changes noise_sample.
NoiseRegeneration ==
    [][/\ result'.op = "advance" => (result'.kind # "hang" /\ AdvanceCountsWraps)
       /\ result'.op = "send_command" => CommandKeepsNoiseSample]_vars

\* the same for the calls that return
NoiseRegenerationWhenReturning ==
    [][/\ (result'.op = "advance" /\ result'.kind # "hang") => AdvanceCountsWraps
       /\ result'.op = "send_command" => CommandKeepsNoiseSample]_vars

\* an advance of a noise channel has wrapped twice and drawn twice
NoiseTwiceWitness ==
    /\ result.op = "advance"
    /\ channels[1].waveform = 6
    /\ noise_calls = 2
    /\ channels[1].noise_sample # 0

\* the fields of ChannelState a command names
NamedFields(op) ==
    CASE op = "ForceSetAmplitude" ->
            {"amplitude", "ramped_amplitude", "amplitude_slide_target"}
      [] op = "SetAmplitude" -> {"amplitude", "amplitude_slide_target"}
      [] op = "AmplitudeSlide" -> {"amplitude_slide_target", "amplitude_rate"}
      [] op = "SetFrequency" -> {"frequency", "frequency_slide_target"}
      [] op = "FrequencySlide" -> {"frequency_slide_target", "frequency_rate"}
      [] op = "ForceSetPanning" ->
            {"panning", "ramped_panning", "panning_slide_target"}
      [] op = "SetPanning" -> {"panning", "panning_slide_target"}
      [] op = "PanningSlide" -> {"panning_slide_target", "panning_rate"}
      [] op = "SetWaveform" -> {"waveform"}
      [] op = "SetCustomWaveform" -> {"custom_waveform"}
      [] op = "SetPhase" -> {"period"}

\* C22: a successful send_command(cmd, i) changes no channel but channel i,
\* and of channel i no field but those the command names; the chip
\* parameters, remaining_frames and the number of channels stay as they are.
CommandFrame ==
    [][(result'.op = "send_command" /\ result'.ok) =>
         LET i == result'.channel + 1
         IN  /\ Len(channels') = Len(channels)
             /\ parameters' = parameters
             /\ remaining_frames' = remaining_frames
             /\ \A j \in 1..Len(channels) : j # i => channels'[j] = channels[j]
             /\ \A f \in DOMAIN channels[i] \ NamedFields(result'.command.op) :
                    channels'[i][f] = channels[i][f]]_vars

\* SetPanning has reached the second of two channels that have played: the
\* panning is set, the ramped panning is where it was
CommandFrameWitness ==
    /\ result.op = "send_command"
    /\ result.ok
    /\ result.command.op = "SetPanning"
    /\ result.channel = 1
    /\ Len(channels) = 2
    /\ channels[2].panning # 0
    /\ channels[2].ramped_panning = 0
    /\ channels[1].period # 0
    /\ channels[2].period # 0

\* timestep and tick_frames are what the other fields give
Consistent(p) ==
    /\ p.timestep = RoundDiv(TDEN, p.samplerate)
    /\ p.tick_frames = FDivInt(p.samplerate, p.tick_rate)
    /\ get_tick_frames(p) = FDivInt(p.samplerate, p.tick_rate)

\* C23: after ChipParameters::new and after every set_sample_rate and
\* set_tick_rate call, timestep = 1/samplerate and tick_frames =
\* samplerate/tick_rate, which get_tick_frames returns; generate and
\* send_command change no chip parameter.
ParametersStayConsistent ==
    [][/\ Consistent(parameters)
       /\ Consistent(parameters')
       /\ result'.op \in {"generate", "send_command"} => parameters' = parameters]_vars

\* both setters have been called on a chip that has played, and the derived
\* values are those of the new rates: 500 / 4000 = 1/8 frame per tick
ParametersWitness ==
    /\ result.op \in {"set_sample_rate", "set_tick_rate"}
    /\ total_frames > 0
    /\ parameters.samplerate = 500
    /\ parameters.tick_rate = 4000 * ONE
    /\ parameters.tick_frames = ONE \div 8
    /\ parameters.timestep = 4

\* C24: the samples a run of generate calls has written (calls within one
\* tick with no command between them), the channels and remaining_frames
\* after it are those of one generate call, on a slice for as many frames,
\* from the chip as it was when the run began; and there is one outcome only.
SplitEquivalence ==
    (result.op = "generate" /\ result.ok) =>
        LET n == Len(fill.out) \div 2
            started == StartTick(fill.remaining_frames, parameters)
            slice == [j \in 1..(2 * n) |-> BufferFill]
            outcomes == AllRuns(fill.channels, n, parameters.timestep)
        IN  /\ FramesToGenerate(started, 2 * n) = n
            /\ Cardinality(outcomes) = 1
            /\ \A collected \in outcomes :
                   /\ fill.out = Mix(slice, collected, n, parameters.amplitude)
                   /\ channels = [i \in 1..Len(channels) |-> collected[i].state]
            /\ remaining_frames = SpendFrames(started, n)

\* a tick of four frames filled by more than one call, the frames differing
\* and not silent
SplitWitness ==
    /\ result.op = "generate"
    /\ result.ok
    /\ Len(fill.out) = 8
    /\ fill.out[3] # 0
    /\ fill.out[3] # fill.out[5]
    /\ fill.out[5] # fill.out[7]
    /\ Len(channels) = 2

====
